---- MODULE Spec2Model ----
(***************************************************************************)
(* A model of lsh/cache.py: the banded LSH index `Cache` (bucket mappings  *)
(* per band plus the fingerprint store), its registration, queries and    *)
(* JSON persistence.                                                       *)
(*                                                                         *)
(* Three specifications: Spec (the calls on one index, each call one       *)
(* step), SpecConfig (construction over the hashers and band counts, and   *)
(* import of files that lack fields) and SpecThreads (queries of two       *)
(* threads, interleaved step by step).                                     *)
(*                                                                         *)
(* Conventions.                                                            *)
(*  - A Python value that is used as a doc id or a dict key is a record    *)
(*    [t, n, s]: t is "int", "str" or "none"; n the integer; s the         *)
(*    characters of the string.                                            *)
(*  - An optional argument (doc, min_jaccard) is the empty set for None    *)
(*    and a singleton otherwise.                                           *)
(*  - A Python set (a bucket) is the sequence of its members in the        *)
(*    set's iteration order; a dict whose insertion order the code reads   *)
(*    (the fingerprint store) is a sequence of [k, v] entries.             *)
(*  - Python leaves the iteration order of a set open. CPython iterates a  *)
(*    small set by table slot, and members that fell on the same slot (the *)
(*    ids 1 and 9, say) come in the order they were added. The doc ids of  *)
(*    the model stand for ids of that kind: a bucket iterates in the order *)
(*    its members were added.                                              *)
(*  - Band indices are 1-based (bin_i + 1).                                *)
(*  - A float in [0,1] is an exact fraction: a Jaccard estimate is         *)
(*    [num, den]; a threshold is a number of tenths.                       *)
(***************************************************************************)
EXTENDS Integers, Sequences, FiniteSets, TLC

VARIABLES cache, loaded, last, nops, registered, calls

vars == <<cache, loaded, last, nops, registered, calls>>

\* Bounds of the model.
MaxOps == 3
MaxBands == 2
MaxSeeds == 10

\* hasher.num_seeds of the MinHasher handed to the constructor.
NumSeeds == 4

(***************************************************************************)
(* Python values                                                           *)
(***************************************************************************)
PyNone == [t |-> "none", n |-> 0, s |-> <<>>]

PyInt(i) == [t |-> "int", n |-> i, s |-> <<>>]

PyStr(cs) == [t |-> "str", n |-> 0, s |-> cs]

DigitChars == <<"0", "1", "2", "3", "4", "5", "6", "7", "8", "9">>

RECURSIVE Digits(_)
Digits(n) ==
    IF n < 10 THEN <<DigitChars[n + 1]>>
    ELSE Append(Digits(n \div 10), DigitChars[(n % 10) + 1])

\* The key json.dump writes for a dict key: str(int), "null" for None, the
\* string itself for a str.
json_key(k) ==
    CASE k.t = "int" ->
           PyStr(IF k.n < 0 THEN <<"-">> \o Digits(-k.n) ELSE Digits(k.n))
      [] k.t = "none" -> PyStr(<<"n", "u", "l", "l">>)
      [] OTHER -> k

\* int(x) of a one-character string: the digit, or ValueError.
int(x) ==
    IF \E d \in 1..10 : DigitChars[d] = x.s[1]
    THEN [exc |-> "", val |-> PyInt((CHOOSE d \in 1..10 : DigitChars[d] = x.s[1]) - 1)]
    ELSE [exc |-> "ValueError", val |-> PyNone]

\* key_typecast[tag] applied to k[0], the first character of the key k.
key_typecast(tag, k) ==
    LET k0 == PyStr(<<k.s[1]>>)
    IN  IF tag = "int" THEN int(k0) ELSE [exc |-> "", val |-> k0]

(***************************************************************************)
(* The MinHasher (lsh.minhash, outside this file)                          *)
(***************************************************************************)
Docs == {"a", "b", "d"}

DocValues == [a |-> <<1, 1, 1, 1>>, b |-> <<1, 1, 2, 2>>, d |-> <<3, 3, 0, 2>>]

\* hasher.fingerprint(doc.encode('utf8')): deterministic, length num_seeds.
fingerprint(hasher, doc) ==
    [i \in 1..hasher.num_seeds |-> DocValues[doc][((i - 1) % 4) + 1]]

\* hasher.jaccard(fp1, fp2): the share of positions on which they agree.
jaccard(fp1, fp2) ==
    [num |-> Cardinality({i \in 1..Len(fp1) : fp1[i] = fp2[i]}), den |-> Len(fp1)]

\* jaccard > min_jaccard, min_jaccard given in tenths.
Exceeds(j, tenths) == j.num * 10 > tenths * j.den

(***************************************************************************)
(* Helpers of the containers                                               *)
(***************************************************************************)
Range(seq) == {seq[i] : i \in 1..Len(seq)}

\* dict of the fingerprint store, in insertion order.
Keys(store) == {store[i].k : i \in 1..Len(store)}

Get(store, k) == store[CHOOSE i \in 1..Len(store) : store[i].k = k].v

Put(store, k, v) ==
    IF k \in Keys(store)
    THEN [i \in 1..Len(store) |-> IF store[i].k = k THEN [k |-> k, v |-> v] ELSE store[i]]
    ELSE Append(store, [k |-> k, v |-> v])

\* defaultdict(set): reading b[key] creates the key with an empty set.
Members(b, key) == IF key \in DOMAIN b THEN b[key] ELSE <<>>

Touch(b, key) == IF key \in DOMAIN b THEN b ELSE b @@ (key :> <<>>)

EmptyBin == [key \in {} |-> <<>>]

(***************************************************************************)
(* Cache                                                                   *)
(***************************************************************************)
\* The default of the num_bands parameter of Cache.__init__.
DefaultNumBands == 10

\* Cache.__init__ without the assert statement: the width is the floor of the
\* quotient.
Construct_unchecked(hasher, num_bands) ==
    IF num_bands = 0
    THEN [exc |-> "ZeroDivisionError", num_bands |-> num_bands, band_width |-> 0,
          hasher |-> hasher, bins |-> <<>>, fingerprints |-> <<>>]
    ELSE [exc |-> "", num_bands |-> num_bands,
          band_width |-> hasher.num_seeds \div num_bands,
          hasher |-> hasher,
          bins |-> [b \in 1..num_bands |-> EmptyBin],
          fingerprints |-> <<>>]

\* Cache.__init__: hasher.num_seeds % num_bands raises ZeroDivisionError for
\* num_bands = 0, the assert raises AssertionError for a remainder.
Construct(hasher, num_bands) ==
    IF num_bands = 0
    THEN [exc |-> "ZeroDivisionError", num_bands |-> num_bands, band_width |-> 0,
          hasher |-> hasher, bins |-> <<>>, fingerprints |-> <<>>]
    ELSE IF hasher.num_seeds % num_bands # 0
    THEN [exc |-> "AssertionError", num_bands |-> num_bands, band_width |-> 0,
          hasher |-> hasher, bins |-> <<>>, fingerprints |-> <<>>]
    ELSE [exc |-> "", num_bands |-> num_bands,
          band_width |-> hasher.num_seeds \div num_bands,
          hasher |-> hasher,
          bins |-> [b \in 1..num_bands |-> EmptyBin],
          fingerprints |-> <<>>]

\* np.array_split(a, n): n contiguous sections, the first Len(a) % n of them
\* one longer than the others.
array_split(a, n) ==
    LET q == Len(a) \div n
        r == Len(a) % n
        off(i) == (i - 1) * q + (IF i - 1 < r THEN i - 1 ELSE r)
        size(i) == q + (IF i <= r THEN 1 ELSE 0)
    IN  [i \in 1..n |-> SubSeq(a, off(i) + 1, off(i) + size(i))]

\* Cache.bins_
bins_(c, fp) == array_split(fp, c.num_bands)

\* hash(tuple(bucket)): a deterministic combining hash over the ordered values
\* into a finite range of signed integers; it is not injective.
RECURSIVE hash_acc(_, _)
hash_acc(t, i) == IF i = 0 THEN 0 ELSE hash_acc(t, i - 1) * 3 + t[i]

hash(t) == PyInt((hash_acc(t, Len(t)) % 5) - 3)

\* set_add as list.append: the member is added again.
set_add_append(bucket, x) == Append(bucket, x)

\* set.add(x): no effect when x is a member; otherwise x comes last in the
\* set's iteration order.
set_add(bucket, x) == IF x \in Range(bucket) THEN bucket ELSE Append(bucket, x)

\* clear resetting the bucket mapping of the first band only.
clear_first_band(c) == [c EXCEPT !.bins[1] = EmptyBin]

\* clear emptying the fingerprint store as well.
clear_with_store(c) ==
    [c EXCEPT !.bins = [b \in 1..c.num_bands |-> EmptyBin], !.fingerprints = <<>>]

\* Cache.clear
clear(c) == [c EXCEPT !.bins = [b \in 1..c.num_bands |-> EmptyBin]]

\* insert_bands moving the id: it is taken out of the other buckets of the
\* band before it is added to the bucket of the fingerprint.
insert_bands_moving(c, fp, doc_id) ==
    [i \in 1..c.num_bands |->
        LET bucket_id == hash(bins_(c, fp)[i])
            b == Touch(c.bins[i], bucket_id)
        IN  [k \in DOMAIN b |->
                IF k = bucket_id THEN set_add(b[k], doc_id)
                ELSE SelectSeq(b[k], LAMBDA x : x # doc_id)]]

\* Cache.update, lines 103-106: the doc id added to the bucket of every band.
insert_bands(c, fp, doc_id) ==
    [i \in 1..c.num_bands |->
        LET bucket_id == hash(bins_(c, fp)[i])
            b == Touch(c.bins[i], bucket_id)
        IN  [b EXCEPT ![bucket_id] = set_add(b[bucket_id], doc_id)]]

\* update keeping no fingerprint for the None id: the id goes to the buckets
\* only.
update_unstored_none(c, doc, doc_id) ==
    LET fp == fingerprint(c.hasher, doc)
    IN  [cache |-> [c EXCEPT !.fingerprints = IF doc_id = PyNone THEN c.fingerprints
                                              ELSE Put(c.fingerprints, doc_id, fp),
                             !.bins = insert_bands(c, fp, doc_id)],
         warned |-> doc_id # PyNone /\ doc_id \in Keys(c.fingerprints)]

\* update refusing to overwrite the fingerprint of a known id: it warns and
\* keeps the stored fingerprint.
update_refuse(c, doc, doc_id) ==
    LET fp == fingerprint(c.hasher, doc)
        known == doc_id # PyNone /\ doc_id \in Keys(c.fingerprints)
    IN  [cache |-> [c EXCEPT !.fingerprints = IF known THEN c.fingerprints
                                              ELSE Put(c.fingerprints, doc_id, fp),
                             !.bins = insert_bands(c, fp, doc_id)],
         warned |-> known]

\* Cache.update: [cache, warned], warned telling that logging.warning was
\* called.
update(c, doc, doc_id) ==
    LET fp == fingerprint(c.hasher, doc)
    IN  [cache |-> [c EXCEPT !.fingerprints = Put(c.fingerprints, doc_id, fp),
                             !.bins = insert_bands(c, fp, doc_id)],
         warned |-> doc_id # PyNone /\ doc_id \in Keys(c.fingerprints)]

\* itertools.combinations(bucket, r=2): the pairs in iteration order.
combinations(bucket) ==
    {<<bucket[p[1]], bucket[p[2]]>> :
        p \in {q \in (1..Len(bucket)) \X (1..Len(bucket)) : q[1] < q[2]}}

\* filter_candidates keeping the pairs whose estimate equals the threshold
\* (>= for >).
filter_candidates_ge(c, candidate_id_pairs, min_jaccard) ==
    IF \E p \in candidate_id_pairs :
          p[1] \notin Keys(c.fingerprints) \/ p[2] \notin Keys(c.fingerprints)
    THEN [exc |-> "KeyError", val |-> {}]
    ELSE [exc |-> "",
          val |-> {p \in candidate_id_pairs :
                     LET j == jaccard(Get(c.fingerprints, p[1]), Get(c.fingerprints, p[2]))
                     IN  j.num * 10 >= min_jaccard * j.den}]

\* Cache.filter_candidates
filter_candidates(c, candidate_id_pairs, min_jaccard) ==
    IF \E p \in candidate_id_pairs :
          p[1] \notin Keys(c.fingerprints) \/ p[2] \notin Keys(c.fingerprints)
    THEN [exc |-> "KeyError", val |-> {}]
    ELSE [exc |-> "",
          val |-> {p \in candidate_id_pairs :
                     Exceeds(jaccard(Get(c.fingerprints, p[1]), Get(c.fingerprints, p[2])),
                             min_jaccard)}]

\* Cache.get_all_duplicates, lines 123-128: the candidate pairs.
candidate_pairs(c) ==
    UNION {UNION {IF Len(c.bins[b][bucket_id]) > 1
                  THEN combinations(c.bins[b][bucket_id]) ELSE {} :
                  bucket_id \in DOMAIN c.bins[b]} :
           b \in 1..c.num_bands}

\* Cache.get_all_duplicates
get_all_duplicates(c, min_jaccard) ==
    IF min_jaccard = {} THEN [exc |-> "", val |-> candidate_pairs(c)]
    ELSE filter_candidates(c, candidate_pairs(c), CHOOSE t \in min_jaccard : TRUE)

\* resolve_fingerprint with the first two branches swapped: supplied content
\* wins over a known id.
resolve_fingerprint_doc_first(c, doc, doc_id) ==
    IF doc # {}
    THEN [exc |-> "", val |-> fingerprint(c.hasher, CHOOSE x \in doc : TRUE)]
    ELSE IF doc_id # PyNone /\ doc_id \in Keys(c.fingerprints)
    THEN [exc |-> "", val |-> Get(c.fingerprints, doc_id)]
    ELSE [exc |-> "ValueError", val |-> <<>>]

\* Cache.get_duplicates_of, lines 135-140: the fingerprint the query is about.
resolve_fingerprint(c, doc, doc_id) ==
    IF doc_id # PyNone /\ doc_id \in Keys(c.fingerprints)
    THEN [exc |-> "", val |-> Get(c.fingerprints, doc_id)]
    ELSE IF doc # {}
    THEN [exc |-> "", val |-> fingerprint(c.hasher, CHOOSE x \in doc : TRUE)]
    ELSE [exc |-> "ValueError", val |-> <<>>]

\* candidates_of with the union taken after the loop: the last band only.
candidates_of_last_band(c, fp) ==
    Range(Members(c.bins[c.num_bands], hash(bins_(c, fp)[c.num_bands])))

\* Cache.get_duplicates_of, lines 142-145: the union of the buckets of fp.
candidates_of(c, fp) ==
    UNION {Range(Members(c.bins[i], hash(bins_(c, fp)[i]))) : i \in 1..c.num_bands}

\* Cache.get_duplicates_of, line 145: reading self.bins[bin_i][bucket_id]
\* creates a missing bucket.
read_buckets(c, fp) ==
    [c EXCEPT !.bins = [i \in 1..c.num_bands |-> Touch(c.bins[i], hash(bins_(c, fp)[i]))]]

\* Cache.get_duplicates_of: [exc, val, cache], cache being the index after the
\* call.
get_duplicates_of(c, doc, doc_id, min_jaccard) ==
    LET fp == resolve_fingerprint(c, doc, doc_id)
        candidates == candidates_of(c, fp.val)
    IN  IF fp.exc # "" THEN [exc |-> fp.exc, val |-> {}, cache |-> c]
        ELSE IF min_jaccard = {}
        THEN [exc |-> "", val |-> candidates, cache |-> read_buckets(c, fp.val)]
        ELSE IF \E x \in candidates : x \notin Keys(c.fingerprints)
        THEN [exc |-> "KeyError", val |-> {}, cache |-> read_buckets(c, fp.val)]
        ELSE [exc |-> "",
              val |-> {x \in candidates :
                         Exceeds(jaccard(fp.val, Get(c.fingerprints, x)),
                                 CHOOSE t \in min_jaccard : TRUE)},
              cache |-> read_buckets(c, fp.val)]

\* is_duplicate without the early return for a known doc_id.
is_duplicate_no_early_return(c, doc, doc_id) ==
    LET r == get_duplicates_of(c, doc, PyNone, {})
    IN  [exc |-> r.exc,
         val |-> r.exc = "" /\ Cardinality(r.val \ {doc_id}) > 0,
         cache |-> r.cache]

\* Cache.is_duplicate: [exc, val, cache].
is_duplicate(c, doc, doc_id) ==
    IF doc_id # PyNone /\ doc_id \in Keys(c.fingerprints)
    THEN [exc |-> "", val |-> FALSE, cache |-> c]
    ELSE LET r == get_duplicates_of(c, doc, PyNone, {})
         IN  [exc |-> r.exc,
              val |-> r.exc = "" /\ Cardinality(r.val \ {doc_id}) > 0,
              cache |-> r.cache]

(***************************************************************************)
(* Persistence                                                             *)
(***************************************************************************)
NoCache ==
    [exc |-> "none", num_bands |-> 0, band_width |-> 0, hasher |-> [num_seeds |-> 0],
     bins |-> <<>>, fingerprints |-> <<>>]

\* Cache.jsonable: the fingerprints as lists, the buckets as lists in the
\* sets' iteration order, and the type tag of the first key of the store.
jsonable(c) ==
    [hasher |-> c.hasher, num_bands |-> c.num_bands, band_width |-> c.band_width,
     fingerprints |-> c.fingerprints,
     id_key_type |-> IF Len(c.fingerprints) = 0 THEN ""
                     ELSE LET sample_id == c.fingerprints[1].k
                          IN  IF sample_id.t = "str" THEN "str"
                              ELSE IF sample_id.t = "int" THEN "int" ELSE "",
     bins |-> c.bins]

\* A dict as a JSON object: every key becomes its string; of two entries with
\* the same string the later value stays, at the earlier place.
RECURSIVE json_object(_)
json_object(store) ==
    IF Len(store) = 0 THEN <<>>
    ELSE LET e == store[Len(store)]
         IN  Put(json_object(SubSeq(store, 1, Len(store) - 1)), json_key(e.k), e.v)

\* Cache.to_json: json.dump(self.jsonable()), as json.load reads it back.
to_json(c) ==
    LET d == jsonable(c)
    IN  [d EXCEPT
           !.fingerprints = json_object(d.fingerprints),
           !.bins = [i \in 1..Len(d.bins) |->
                       [sk \in {json_key(k) : k \in DOMAIN d.bins[i]} |->
                           d.bins[i][CHOOSE k \in DOMAIN d.bins[i] : json_key(k) = sk]]]]

\* set(v) of a list v: the members added one by one.
RECURSIVE set_of(_)
set_of(v) ==
    IF Len(v) = 0 THEN <<>>
    ELSE set_add(set_of(SubSeq(v, 1, Len(v) - 1)), v[Len(v)])

\* {func(k[0]): np.array(v) for k, v in data['fingerprints'].items()}
RECURSIVE load_fingerprints(_, _)
load_fingerprints(entries, tag) ==
    IF Len(entries) = 0 THEN [exc |-> "", val |-> <<>>]
    ELSE LET front == load_fingerprints(SubSeq(entries, 1, Len(entries) - 1), tag)
             e == entries[Len(entries)]
             key == key_typecast(tag, e.k)
         IN  IF front.exc # "" THEN front
             ELSE IF key.exc # "" THEN [exc |-> key.exc, val |-> <<>>]
             ELSE [exc |-> "", val |-> Put(front.val, key.val, e.v)]

\* The JSON object d without the fields of `missing`.
Without(d, missing) == [f \in (DOMAIN d) \ missing |-> d[f]]

\* Cache.from_json: [exc, cache]. data.pop('hasher'), data['bins'] and
\* data['fingerprints'] raise KeyError for a missing field; a missing
\* num_bands leaves the constructor its default, a missing id_key_type is ''.
from_json(data) ==
    LET c == Construct(data.hasher,
                       IF "num_bands" \in DOMAIN data THEN data.num_bands
                       ELSE DefaultNumBands)
        bins == [i \in 1..Len(data.bins) |->
                    [k \in DOMAIN data.bins[i] |-> set_of(data.bins[i][k])]]
        fps == load_fingerprints(data.fingerprints,
                                 IF "id_key_type" \in DOMAIN data THEN data.id_key_type
                                 ELSE "")
    IN  IF "hasher" \notin DOMAIN data THEN [exc |-> "KeyError", cache |-> NoCache]
        ELSE IF c.exc # "" THEN [exc |-> c.exc, cache |-> NoCache]
        ELSE IF "bins" \notin DOMAIN data THEN [exc |-> "KeyError", cache |-> NoCache]
        ELSE IF "fingerprints" \notin DOMAIN data THEN [exc |-> "KeyError", cache |-> NoCache]
        ELSE IF fps.exc # "" THEN [exc |-> fps.exc, cache |-> NoCache]
        ELSE [exc |-> "", cache |-> [c EXCEPT !.bins = bins, !.fingerprints = fps.val]]

(***************************************************************************)
(* The state machine: one index `cache`, the calls made on it, and the     *)
(* index `loaded` that from_json returned for a to_json of `cache`.        *)
(* `registered` is a history variable: the (doc, doc_id) of the update     *)
(* calls made since construction or the most recent clear().               *)
(***************************************************************************)
DocIds == {PyNone, PyInt(1), PyInt(-1)}

OptDocs == {{}} \cup {{doc} : doc \in Docs}

Thresholds == {{}, {5}}

NotLoaded == [exc |-> "none", cache |-> NoCache]

Call(op, doc, doc_id, min_jaccard) ==
    [op |-> op, doc |-> doc, doc_id |-> doc_id, min_jaccard |-> min_jaccard,
     exc |-> "", ids |-> {}, pairs |-> {}, flag |-> FALSE, warned |-> FALSE,
     missing |-> {}]

\* The threads that call the index, and the call a thread is making: its
\* position pc, the band it is at, the dict iterator of get_all_duplicates
\* (the keys still to come and the size of the dict when the iterator was
\* made), the fingerprint and the candidates gathered so far.
Threads == {"t1", "t2"}

NoCall ==
    [pc |-> "idle", band |-> 0, todo |-> {}, size |-> 0, fp |-> <<>>,
     ids |-> {}, pairs |-> {},
     call |-> Call("none", {}, PyNone, {}), alone |-> Call("none", {}, PyNone, {})]

Init ==
    /\ calls = [t \in Threads |-> NoCall]
    /\ cache \in {Construct([num_seeds |-> NumSeeds], num_bands) : num_bands \in 0..MaxBands}
    /\ loaded = NotLoaded
    /\ last = Call("__init__", {}, PyNone, {})
    /\ nops = 0
    /\ registered = {}

Ready == cache.exc = "" /\ nops < MaxOps

Update ==
    /\ Ready
    /\ \E doc \in Docs, doc_id \in DocIds :
         LET r == update(cache, doc, doc_id)
         IN  /\ cache' = r.cache
             /\ last' = [Call("update", {doc}, doc_id, {}) EXCEPT !.warned = r.warned]
             /\ registered' = registered \cup {[doc |-> doc, doc_id |-> doc_id]}
    /\ loaded' = NotLoaded
    /\ nops' = nops + 1
    /\ UNCHANGED calls

Clear ==
    /\ Ready
    /\ cache' = clear(cache)
    /\ last' = Call("clear", {}, PyNone, {})
    /\ registered' = {}
    /\ loaded' = NotLoaded
    /\ nops' = nops + 1
    /\ UNCHANGED calls

GetAllDuplicates ==
    /\ Ready
    /\ \E min_jaccard \in Thresholds :
         LET r == get_all_duplicates(cache, min_jaccard)
         IN  last' = [Call("get_all_duplicates", {}, PyNone, min_jaccard) EXCEPT
                        !.exc = r.exc, !.pairs = r.val]
    /\ loaded' = NotLoaded
    /\ nops' = nops + 1
    /\ UNCHANGED calls
    /\ UNCHANGED <<cache, registered>>

GetDuplicatesOf ==
    /\ Ready
    /\ \E doc \in OptDocs, doc_id \in DocIds, min_jaccard \in Thresholds :
         LET r == get_duplicates_of(cache, doc, doc_id, min_jaccard)
         IN  /\ cache' = r.cache
             /\ last' = [Call("get_duplicates_of", doc, doc_id, min_jaccard) EXCEPT
                           !.exc = r.exc, !.ids = r.val]
    /\ loaded' = NotLoaded
    /\ nops' = nops + 1
    /\ UNCHANGED calls
    /\ UNCHANGED registered

IsDuplicate ==
    /\ Ready
    /\ \E doc \in OptDocs, doc_id \in DocIds :
         LET r == is_duplicate(cache, doc, doc_id)
         IN  /\ cache' = r.cache
             /\ last' = [Call("is_duplicate", doc, doc_id, {}) EXCEPT
                           !.exc = r.exc, !.flag = r.val]
    /\ loaded' = NotLoaded
    /\ nops' = nops + 1
    /\ UNCHANGED calls
    /\ UNCHANGED registered

\* to_json(path) followed by from_json(path).
RoundTrip ==
    /\ Ready
    /\ loaded' = from_json(to_json(cache))
    /\ last' = Call("from_json", {}, PyNone, {})
    /\ nops' = nops + 1
    /\ UNCHANGED calls
    /\ UNCHANGED <<cache, registered>>

Next ==
    \/ Update
    \/ Clear
    \/ GetAllDuplicates
    \/ GetDuplicatesOf
    \/ IsDuplicate
    \/ RoundTrip

Spec == Init /\ [][Next]_vars

(***************************************************************************)
(* Construction and import over the hashers and band counts: the index is  *)
(* constructed by the first step, for any num_seeds and num_bands, then    *)
(* populated and imported from a file that lacks some of its fields.       *)
(***************************************************************************)
RequiredFields == {"hasher", "num_bands", "bins", "fingerprints"}

InitConfig ==
    /\ calls = [t \in Threads |-> NoCall]
    /\ cache = NoCache
    /\ loaded = NotLoaded
    /\ last = Call("none", {}, PyNone, {})
    /\ nops = 0
    /\ registered = {}

\* Cache(hasher, num_bands)
New ==
    /\ cache = NoCache
    /\ \E num_seeds \in 1..MaxSeeds, num_bands \in 0..(MaxSeeds + 2) :
         /\ cache' = Construct([num_seeds |-> num_seeds], num_bands)
         /\ last' = [Call("__init__", {}, PyNone, {}) EXCEPT !.exc = cache'.exc]
    /\ nops' = nops + 1
    /\ UNCHANGED calls
    /\ UNCHANGED <<loaded, registered>>

\* from_json(path) of a file written by to_json(path) from which the fields
\* of `missing` were taken away.
Load ==
    /\ Ready
    /\ \E missing \in (SUBSET RequiredFields) \ {{}} :
         /\ loaded' = from_json(Without(to_json(cache), missing))
         /\ last' = [Call("from_json", {}, PyNone, {}) EXCEPT
                       !.exc = loaded'.exc, !.missing = missing]
    /\ nops' = nops + 1
    /\ UNCHANGED calls
    /\ UNCHANGED <<cache, registered>>

NextConfig ==
    \/ New
    \/ Update
    \/ Load

SpecConfig == InitConfig /\ [][NextConfig]_vars

(***************************************************************************)
(* Concurrent queries. The index was populated and is no longer registered *)
(* to, cleared or imported; each thread makes one query. A thread can be   *)
(* switched between any two bytecodes, so a query is a sequence of steps:  *)
(* one per access to the bucket mappings, which are the state the queries  *)
(* share. `alone` is the outcome of the call run alone on the index as it  *)
(* is when the call starts.                                                *)
(***************************************************************************)
Corpus ==
    <<[doc |-> "a", doc_id |-> PyInt(1)],
      [doc |-> "b", doc_id |-> PyInt(-1)],
      [doc |-> "d", doc_id |-> PyNone]>>

\* The index after update() of the first n documents of the corpus.
RECURSIVE Populated(_, _)
Populated(c, n) ==
    IF n = 0 THEN c
    ELSE update(Populated(c, n - 1), Corpus[n].doc, Corpus[n].doc_id).cache

InitThreads ==
    /\ \E num_bands \in 1..MaxBands, n \in 0..Len(Corpus) :
         /\ cache = Populated(Construct([num_seeds |-> NumSeeds], num_bands), n)
         /\ registered = {Corpus[i] : i \in 1..n}
    /\ loaded = NotLoaded
    /\ last = Call("__init__", {}, PyNone, {})
    /\ nops = 0
    /\ calls = [t \in Threads |-> NoCall]

\* Cache.get_duplicates_of, lines 147-152: the candidates, re-scored against
\* the fingerprint fp when min_jaccard is given.
rescore(c, fp, candidates, min_jaccard) ==
    IF min_jaccard = {} THEN [exc |-> "", val |-> candidates]
    ELSE IF \E x \in candidates : x \notin Keys(c.fingerprints)
    THEN [exc |-> "KeyError", val |-> {}]
    ELSE [exc |-> "",
          val |-> {x \in candidates :
                     Exceeds(jaccard(fp, Get(c.fingerprints, x)),
                             CHOOSE t \in min_jaccard : TRUE)}]

Finished(call) == [NoCall EXCEPT !.pc = "done", !.call = call.call, !.alone = call.alone]

\* get_all_duplicates is entered: candidate_pairs = set(), and the loop over
\* self.bins is at its first band.
StartGetAllDuplicates(t) ==
    /\ calls[t].pc = "idle"
    /\ \E min_jaccard \in Thresholds :
         LET r == get_all_duplicates(cache, min_jaccard)
             c == Call("get_all_duplicates", {}, PyNone, min_jaccard)
         IN  calls' = [calls EXCEPT ![t] =
                 [NoCall EXCEPT !.pc = "iter", !.band = 1, !.call = c,
                                !.alone = [c EXCEPT !.exc = r.exc, !.pairs = r.val]]]
    /\ UNCHANGED <<cache, loaded, last, nops, registered>>

\* `for bucket_id in b`: the iterator over the dict of the band is made; it
\* keeps the size the dict has now.
IterBand(t) ==
    /\ calls[t].pc = "iter"
    /\ calls' = [calls EXCEPT ![t].pc = "next",
                              ![t].todo = DOMAIN cache.bins[calls[t].band],
                              ![t].size = Cardinality(DOMAIN cache.bins[calls[t].band])]
    /\ UNCHANGED <<cache, loaded, last, nops, registered>>

\* The next key of the iterator, and the body of the loop for it. The
\* iterator raises RuntimeError (dictionary changed size during iteration)
\* when the dict no longer has the size it had; after the last key of the last
\* band the call returns, through filter_candidates when min_jaccard is given.
NextBucket(t) ==
    LET me == calls[t]
        b == cache.bins[me.band]
    IN  /\ me.pc = "next"
        /\ IF Cardinality(DOMAIN b) # me.size
           THEN calls' = [calls EXCEPT ![t] =
                    Finished([me EXCEPT !.call.exc = "RuntimeError"])]
           ELSE IF me.todo # {}
           THEN \E bucket_id \in me.todo :
                    calls' = [calls EXCEPT
                        ![t].todo = me.todo \ {bucket_id},
                        ![t].pairs = me.pairs \cup
                            (IF Len(b[bucket_id]) > 1 THEN combinations(b[bucket_id])
                             ELSE {})]
           ELSE IF me.band < cache.num_bands
           THEN calls' = [calls EXCEPT ![t].pc = "iter", ![t].band = me.band + 1]
           ELSE LET r == IF me.call.min_jaccard = {}
                         THEN [exc |-> "", val |-> me.pairs]
                         ELSE filter_candidates(cache, me.pairs,
                                                CHOOSE x \in me.call.min_jaccard : TRUE)
                IN  calls' = [calls EXCEPT ![t] =
                        Finished([me EXCEPT !.call.exc = r.exc, !.call.pairs = r.val])]
        /\ UNCHANGED <<cache, loaded, last, nops, registered>>

\* get_duplicates_of is entered: the fingerprint is resolved, or ValueError
\* raised.
StartGetDuplicatesOf(t) ==
    /\ calls[t].pc = "idle"
    /\ \E doc \in OptDocs, doc_id \in DocIds, min_jaccard \in Thresholds :
         LET r == get_duplicates_of(cache, doc, doc_id, min_jaccard)
             fp == resolve_fingerprint(cache, doc, doc_id)
             c == Call("get_duplicates_of", doc, doc_id, min_jaccard)
             me == [NoCall EXCEPT !.call = c,
                                  !.alone = [c EXCEPT !.exc = r.exc, !.ids = r.val]]
         IN  calls' = [calls EXCEPT ![t] =
                 IF fp.exc # "" THEN Finished([me EXCEPT !.call.exc = fp.exc])
                 ELSE [me EXCEPT !.pc = "probe", !.band = 1, !.fp = fp.val]]
    /\ UNCHANGED <<cache, loaded, last, nops, registered>>

\* is_duplicate is entered: it returns False for a known doc_id, and enters
\* get_duplicates_of(doc) otherwise.
StartIsDuplicate(t) ==
    /\ calls[t].pc = "idle"
    /\ \E doc \in OptDocs, doc_id \in DocIds :
         LET r == is_duplicate(cache, doc, doc_id)
             fp == resolve_fingerprint(cache, doc, PyNone)
             c == Call("is_duplicate", doc, doc_id, {})
             me == [NoCall EXCEPT !.call = c,
                                  !.alone = [c EXCEPT !.exc = r.exc, !.flag = r.val]]
         IN  calls' = [calls EXCEPT ![t] =
                 IF doc_id # PyNone /\ doc_id \in Keys(cache.fingerprints)
                 THEN Finished(me)
                 ELSE IF fp.exc # "" THEN Finished([me EXCEPT !.call.exc = fp.exc])
                 ELSE [me EXCEPT !.pc = "probe", !.band = 1, !.fp = fp.val]]
    /\ UNCHANGED <<cache, loaded, last, nops, registered>>

\* candidates.update(self.bins[bin_i][bucket_id]) for one band: the read of
\* the defaultdict inserts the bucket when the band does not hold it. After
\* the last band the call returns: the re-scored candidates for
\* get_duplicates_of, len(candidates - {doc_id}) > 0 for is_duplicate.
ProbeBand(t) ==
    LET me == calls[t]
        bucket_id == hash(bins_(cache, me.fp)[me.band])
        candidates == me.ids \cup Range(Members(cache.bins[me.band], bucket_id))
        r == rescore(cache, me.fp, candidates, me.call.min_jaccard)
    IN  /\ me.pc = "probe"
        /\ cache' = [cache EXCEPT !.bins[me.band] = Touch(cache.bins[me.band], bucket_id)]
        /\ calls' = [calls EXCEPT ![t] =
               IF me.band < cache.num_bands
               THEN [me EXCEPT !.band = me.band + 1, !.ids = candidates]
               ELSE IF me.call.op = "is_duplicate"
               THEN Finished([me EXCEPT !.call.flag =
                                 Cardinality(candidates \ {me.call.doc_id}) > 0])
               ELSE Finished([me EXCEPT !.call.exc = r.exc, !.call.ids = r.val])]
        /\ UNCHANGED <<loaded, last, nops, registered>>

NextThreads ==
    \E t \in Threads :
        \/ StartGetAllDuplicates(t)
        \/ IterBand(t)
        \/ NextBucket(t)
        \/ StartGetDuplicatesOf(t)
        \/ StartIsDuplicate(t)
        \/ ProbeBand(t)

SpecThreads == InitThreads /\ [][NextThreads]_vars

(***************************************************************************)
(* Properties                                                              *)
(***************************************************************************)
Constructed == cache.exc = ""

Store == cache.fingerprints

\* The fingerprints agree exactly on the values of at least one band.
SameBand(c, fp1, fp2) == \E i \in 1..c.num_bands : bins_(c, fp1)[i] = bins_(c, fp2)[i]

\* The fingerprints have the same bucket signature in at least one band.
SameSignature(c, fp1, fp2) ==
    \E i \in 1..c.num_bands : hash(bins_(c, fp1)[i]) = hash(bins_(c, fp2)[i])

FP(doc) == fingerprint(cache.hasher, doc)

\* The registration r is the most recent one of its id, which is not None.
Latest(r) ==
    /\ r.doc_id # PyNone
    /\ r.doc_id \in Keys(Store)
    /\ Get(Store, r.doc_id) = FP(r.doc)

\* C1, as stated: for any two ids of the store whose stored fingerprints agree
\* on a band, get_duplicates_of(doc_id=i1) without a filter contains i2.
C1_AsStated ==
    Constructed =>
        \A i1 \in Keys(Store) \ {PyNone}, i2 \in Keys(Store) \ {PyNone} :
            (i1 # i2 /\ SameBand(cache, Get(Store, i1), Get(Store, i2)))
                => i2 \in get_duplicates_of(cache, {}, i1, {}).val

\* C1, amended: for any two documents registered with update() since the most
\* recent clear() whose fingerprints agree exactly on at least one band,
\* get_duplicates_of() without a filter, called for either document (by its
\* content, or by its id when that is the id's most recent registration),
\* contains the other document's id.
C1_BandingCorrectness ==
    Constructed =>
        \A r1 \in registered, r2 \in registered :
            (r1 # r2 /\ SameBand(cache, FP(r1.doc), FP(r2.doc))) =>
                /\ r2.doc_id \in get_duplicates_of(cache, {r1.doc}, PyNone, {}).val
                /\ Latest(r1) => r2.doc_id \in get_duplicates_of(cache, {}, r1.doc_id, {}).val

\* Two documents with different fingerprints that agree on a band were
\* registered under different ids, and a query by id returned the other id.
C1_Witness ==
    /\ Constructed
    /\ last.op = "get_duplicates_of" /\ last.exc = "" /\ last.min_jaccard = {}
    /\ \E r1 \in registered, r2 \in registered :
          /\ r1.doc_id # r2.doc_id /\ FP(r1.doc) # FP(r2.doc)
          /\ SameBand(cache, FP(r1.doc), FP(r2.doc))
          /\ Latest(r1) /\ last.doc_id = r1.doc_id /\ last.doc = {}
          /\ r2.doc_id \in last.ids

StoredJaccard(c, p) == jaccard(Get(c.fingerprints, p[1]), Get(c.fingerprints, p[2]))

ExactFiltering(c) ==
    \A t \in 0..10 :
        LET r == get_all_duplicates(c, {t})
        IN  r.exc = "" =>
                /\ r.val \subseteq get_all_duplicates(c, {}).val
                /\ \A p \in r.val : StoredJaccard(c, p).num * 10 > t * StoredJaccard(c, p).den

\* C2: in every index state (built by calls, or imported) and for every
\* threshold t, get_all_duplicates(min_jaccard=t) is a subset of
\* get_all_duplicates(None) and every pair it returns has a Jaccard estimate
\* of the two stored fingerprints strictly greater than t.
C2_ExactFiltering ==
    /\ Constructed => ExactFiltering(cache)
    /\ loaded.exc = "" => ExactFiltering(loaded.cache)

\* get_all_duplicates(min_jaccard=0.5) returned at least one pair.
C2_Witness ==
    /\ Constructed
    /\ last.op = "get_all_duplicates" /\ last.min_jaccard = {5} /\ last.exc = ""
    /\ last.pairs # {}

\* A set of ordered pairs as a set of unordered pairs.
Unordered(pairs) == {{p[1], p[2]} : p \in pairs}

\* C3: exporting a populated index and importing it yields an index whose
\* get_all_duplicates(None) equals the original's as a set of unordered pairs.
C3_RoundTripPairs ==
    (Constructed /\ last.op = "from_json" /\ Len(Store) > 0) =>
        /\ loaded.exc = ""
        /\ Unordered(get_all_duplicates(loaded.cache, {}).val)
             = Unordered(get_all_duplicates(cache, {}).val)

\* C4: after an export and a successful import, get_duplicates_of(doc_id=i) on
\* the imported index returns what it returns on the original, for every
\* registered id i.
C4_RoundTripQueries ==
    (Constructed /\ last.op = "from_json" /\ loaded.exc = "") =>
        \A i \in Keys(Store) \ {PyNone} :
            /\ get_duplicates_of(loaded.cache, {}, i, {}).exc
                 = get_duplicates_of(cache, {}, i, {}).exc
            /\ get_duplicates_of(loaded.cache, {}, i, {}).val
                 = get_duplicates_of(cache, {}, i, {}).val

\* The ids that are members of some bucket of the index c.
BucketIds(c) ==
    UNION {UNION {Range(c.bins[b][k]) : k \in DOMAIN c.bins[b]} : b \in 1..c.num_bands}

\* The unordered pairs of distinct ids that share a bucket in some band.
CoLocated(c) ==
    {{x, y} : <<x, y>> \in
        {q \in BucketIds(c) \X BucketIds(c) :
            /\ q[1] # q[2]
            /\ \E b \in 1..c.num_bands : \E k \in DOMAIN c.bins[b] :
                  q[1] \in Range(c.bins[b][k]) /\ q[2] \in Range(c.bins[b][k])}}

\* C5: get_all_duplicates(None) returns exactly the unordered pairs of distinct
\* ids that share a bucket in some band, each once: never (a, b) and (b, a).
C5_PairsOnce ==
    Constructed =>
        LET pairs == get_all_duplicates(cache, {}).val
        IN  /\ Unordered(pairs) = CoLocated(cache)
            /\ \A p \in pairs : <<p[2], p[1]>> \notin pairs

\* The bucket signatures hash can produce.
Signatures == {PyInt(n) : n \in -3..1}

InBucket(id, b, sig) == id \in Range(Members(cache.bins[b], sig))

\* C6, as stated: an id is in bucket (band, signature) iff that band of the
\* fingerprint of its most recent registration (the stored one) hashed to the
\* signature.
C6_AsStated ==
    Constructed =>
        \A b \in 1..cache.num_bands, sig \in Signatures, id \in DocIds :
            InBucket(id, b, sig) <=>
                (id \in Keys(Store) /\ hash(bins_(cache, Get(Store, id))[b]) = sig)

\* C6, amended: in every state of an index reached from its construction by
\* update, clear and query calls, an id is in bucket (band, signature) iff that
\* band of the fingerprint of some registration of the id since the most recent
\* clear() hashed to the signature.
C6_BucketMembership ==
    Constructed =>
        \A b \in 1..cache.num_bands, sig \in Signatures, id \in DocIds :
            InBucket(id, b, sig) <=>
                \E r \in registered : r.doc_id = id /\ hash(bins_(cache, FP(r.doc))[b]) = sig

\* An id registered twice since the last clear() is a member of a bucket that
\* its stored fingerprint does not hash to.
C6_Witness ==
    /\ Constructed
    /\ \E id \in Keys(Store), b \in 1..cache.num_bands, sig \in Signatures :
          /\ InBucket(id, b, sig)
          /\ hash(bins_(cache, Get(Store, id))[b]) # sig
          /\ Cardinality({r \in registered : r.doc_id = id}) = 2

MemberSets(c) == [b \in 1..c.num_bands |-> [k \in DOMAIN c.bins[b] |-> Range(c.bins[b][k])]]

OncePerBucket(c) ==
    \A b \in 1..c.num_bands : \A k \in DOMAIN c.bins[b] :
        Len(c.bins[b][k]) = Cardinality(Range(c.bins[b][k]))

\* C7: an update() that repeats the (doc_id, content) of the update() just
\* before it leaves every bucket-membership set as it was, the id once per
\* bucket, and the stored fingerprints as they were.
C7_Idempotence ==
    [][(/\ last.op = "update" /\ last'.op = "update"
        /\ last'.doc = last.doc /\ last'.doc_id = last.doc_id)
       => (/\ MemberSets(cache') = MemberSets(cache)
           /\ OncePerBucket(cache')
           /\ cache'.fingerprints = cache.fingerprints)]_vars

\* The first two calls were update() with the same (doc, doc_id): the second
\* found the id in the store, and one registration is recorded.
C7_Witness ==
    /\ Constructed /\ nops = 2
    /\ last.op = "update" /\ last.warned
    /\ Cardinality(registered) = 1

\* C8: clear() empties every bucket mapping of every band and leaves the
\* fingerprint store as it was: right after it get_all_duplicates() is empty
\* and every id still maps to its fingerprint.
C8_Clear ==
    [][last'.op = "clear"
       => (/\ \A b \in 1..cache'.num_bands : DOMAIN cache'.bins[b] = {}
           /\ get_all_duplicates(cache', {}).exc = ""
           /\ get_all_duplicates(cache', {}).val = {}
           /\ cache'.fingerprints = cache.fingerprints)]_vars

\* clear() was called on an index that held a candidate pair: the two ids are
\* in the store with fingerprints that agree on a band.
C8_Witness ==
    /\ Constructed
    /\ last.op = "clear"
    /\ \E i1 \in Keys(Store), i2 \in Keys(Store) :
          i1 # i2 /\ SameBand(cache, Get(Store, i1), Get(Store, i2))

\* The ids in the buckets that the bands of fp hash to.
BucketUnion(c, fp) ==
    {x \in BucketIds(c) :
        \E b \in 1..c.num_bands : x \in Range(Members(c.bins[b], hash(bins_(c, fp)[b])))}

\* C9: get_duplicates_of answers for the stored fingerprint when doc_id is in
\* the store (whatever content is supplied), otherwise for the fingerprint of
\* the supplied content, otherwise it raises ValueError and leaves the bucket
\* mappings and the store as they were.
C9_Resolution ==
    Constructed =>
        \A doc \in OptDocs, doc_id \in DocIds \cup {PyInt(17)} :
            LET r == get_duplicates_of(cache, doc, doc_id, {})
            IN  IF doc_id # PyNone /\ doc_id \in Keys(Store)
                THEN r.exc = "" /\ r.val = BucketUnion(cache, Get(Store, doc_id))
                ELSE IF doc # {}
                THEN r.exc = "" /\ r.val = BucketUnion(cache, FP(CHOOSE x \in doc : TRUE))
                ELSE r.exc = "ValueError" /\ r.cache = cache

\* get_duplicates_of was called with a known id and with content whose own
\* buckets hold other ids than the ones returned.
C9_Witness ==
    /\ Constructed
    /\ last.op = "get_duplicates_of" /\ last.exc = "" /\ last.min_jaccard = {}
    /\ last.doc # {} /\ last.doc_id \in Keys(Store) \ {PyNone}
    /\ last.ids = BucketUnion(cache, Get(Store, last.doc_id))
    /\ last.ids # BucketUnion(cache, FP(CHOOSE x \in last.doc : TRUE))

IsDuplicateRule(doc, doc_id) ==
    LET r == is_duplicate(cache, {doc}, doc_id)
    IN  /\ r.exc = ""
        /\ (doc_id # PyNone /\ doc_id \in Keys(Store)) => r.val = FALSE
        /\ ~(doc_id # PyNone /\ doc_id \in Keys(Store)) =>
              (r.val <=> (get_duplicates_of(cache, {doc}, PyNone, {}).val \ {doc_id}) # {})

\* C10, as stated, with "shares a band" read as "has the same signature in a
\* band" (the reading that asks least of the code): is_duplicate is false for a
\* known doc_id, otherwise true iff get_duplicates_of(doc) minus doc_id is not
\* empty, and false for a document that shares no band with a stored
\* fingerprint.
C10_AsStated ==
    Constructed =>
        \A doc \in Docs, doc_id \in DocIds :
            /\ IsDuplicateRule(doc, doc_id)
            /\ (\A k \in Keys(Store) : ~SameSignature(cache, FP(doc), Get(Store, k)))
                  => is_duplicate(cache, {doc}, doc_id).val = FALSE

\* C10, amended: the same, the last part being: false for a document that
\* shares no band signature with any fingerprint registered since the most
\* recent clear().
C10_IsDuplicate ==
    Constructed =>
        \A doc \in Docs, doc_id \in DocIds :
            /\ IsDuplicateRule(doc, doc_id)
            /\ (\A r \in registered : ~SameSignature(cache, FP(doc), FP(r.doc)))
                  => is_duplicate(cache, {doc}, doc_id).val = FALSE

\* is_duplicate(doc) returned false for a document that shares no band
\* signature with the registered one.
C10_Witness ==
    /\ Constructed
    /\ last.op = "is_duplicate" /\ last.exc = "" /\ last.flag = FALSE
    /\ last.doc # {} /\ last.doc_id = PyNone
    /\ registered # {}
    /\ \A r \in registered : ~SameSignature(cache, FP(CHOOSE x \in last.doc : TRUE), FP(r.doc))

\* C11: construction succeeds with band_width = num_seeds / num_bands for
\* every (num_seeds, num_bands) with num_seeds % num_bands = 0, and fails with
\* an exception for every other pair, num_bands = 0 included.
C11_Construction ==
    cache # NoCache =>
        IF cache.num_bands # 0 /\ cache.hasher.num_seeds % cache.num_bands = 0
        THEN /\ cache.exc = ""
             /\ cache.band_width * cache.num_bands = cache.hasher.num_seeds
             /\ Len(cache.bins) = cache.num_bands
        ELSE cache.exc \in {"AssertionError", "ZeroDivisionError"}

\* The constructor was called with a band count that is not zero and does
\* not divide num_seeds, and raised.
C11_Witness ==
    /\ last.op = "__init__" /\ last.exc = "AssertionError"
    /\ cache.num_bands > 0 /\ cache.num_bands < cache.hasher.num_seeds
    /\ cache.hasher.num_seeds % cache.num_bands # 0

\* The store of the index after an update(doc, doc_id): doc_id maps to the
\* fingerprint of doc, every other id to what it mapped to.
Overwritten ==
    /\ Keys(cache'.fingerprints) = Keys(cache.fingerprints) \cup {last'.doc_id}
    /\ Get(cache'.fingerprints, last'.doc_id) = FP(CHOOSE x \in last'.doc : TRUE)
    /\ \A k \in Keys(cache.fingerprints) \ {last'.doc_id} :
          Get(cache'.fingerprints, k) = Get(cache.fingerprints, k)

\* C12, as stated: an update() warns if and only if its doc id is already a
\* key of the store, and overwrites the stored fingerprint either way.
C12_AsStated ==
    [][last'.op = "update"
       => (/\ last'.warned <=> last'.doc_id \in Keys(cache.fingerprints)
           /\ Overwritten)]_vars

\* C12, amended: an update() warns if and only if its doc id is not None and
\* is already a key of the store, and overwrites the stored fingerprint either
\* way (last write wins), for the None id as well.
C12_Warning ==
    [][last'.op = "update"
       => (/\ last'.warned <=> (last'.doc_id # PyNone
                                  /\ last'.doc_id \in Keys(cache.fingerprints))
           /\ Overwritten)]_vars

\* An update() of a known id with other content than the id was registered
\* with warned, and the store holds the fingerprint of the new content.
C12_Witness ==
    /\ Constructed
    /\ last.op = "update" /\ last.warned /\ last.doc_id # PyNone
    /\ \E r \in registered :
          r.doc_id = last.doc_id /\ FP(r.doc) # FP(CHOOSE x \in last.doc : TRUE)
    /\ Get(Store, last.doc_id) = FP(CHOOSE x \in last.doc : TRUE)

\* C13: from_json of a file that lacks a required field (hasher, num_bands,
\* bins, fingerprints) raises and returns no index.
C13_MissingField ==
    (last.op = "from_json" /\ last.missing # {}) =>
        loaded.exc # "" /\ loaded.cache = NoCache

\* The id is a member of the bucket of every band of the fingerprint fp.
InEveryBand(c, id, fp) ==
    \A b \in 1..c.num_bands : id \in Range(Members(c.bins[b], hash(bins_(c, fp)[b])))

\* C14: after update(c1, id) followed by update(c2, id) the store maps id to
\* the fingerprint of c2, id is a member of the bucket of every band of c2's
\* fingerprint, and still of the bucket of every band of c1's fingerprint.
C14_Reregistration ==
    [][(/\ last.op = "update" /\ last'.op = "update"
        /\ last'.doc_id = last.doc_id)
       => (/\ Get(cache'.fingerprints, last'.doc_id) = FP(CHOOSE x \in last'.doc : TRUE)
           /\ InEveryBand(cache', last'.doc_id, FP(CHOOSE x \in last'.doc : TRUE))
           /\ InEveryBand(cache', last'.doc_id, FP(CHOOSE x \in last.doc : TRUE)))]_vars

\* Two update() calls in a row registered one id with two contents whose
\* fingerprints have different signatures in every band: the id is a member
\* of two buckets of each band.
C14_Witness ==
    /\ Constructed /\ nops = 2 /\ last.op = "update"
    /\ \E r \in registered :
          /\ r.doc_id = last.doc_id /\ r.doc \notin last.doc
          /\ \A b \in 1..cache.num_bands :
                /\ hash(bins_(cache, FP(r.doc))[b])
                      # hash(bins_(cache, Get(Store, last.doc_id))[b])
                /\ InBucket(last.doc_id, b, hash(bins_(cache, FP(r.doc))[b]))
                /\ InBucket(last.doc_id, b, hash(bins_(cache, Get(Store, last.doc_id))[b]))

\* C15: on an index reached from its construction by update, clear and query
\* calls every member of a bucket is a key of the store, and the re-scoring of
\* get_all_duplicates(min_jaccard=t) and get_duplicates_of(min_jaccard=t) never
\* raises KeyError.
C15_NoLookupError ==
    Constructed =>
        /\ BucketIds(cache) \subseteq Keys(Store)
        /\ \A t \in {0, 5, 10} :
              /\ get_all_duplicates(cache, {t}).exc = ""
              /\ \A doc \in OptDocs, doc_id \in DocIds :
                    get_duplicates_of(cache, doc, doc_id, {t}).exc # "KeyError"

\* get_duplicates_of(min_jaccard=0.5) re-scored at least two candidates, one
\* of them the None id, and returned.
C15_Witness ==
    /\ Constructed
    /\ last.op = "get_duplicates_of" /\ last.min_jaccard = {5} /\ last.exc = ""
    /\ LET fp == resolve_fingerprint(cache, last.doc, last.doc_id).val
       IN  /\ Cardinality(candidates_of(cache, fp)) >= 2
           /\ PyNone \in candidates_of(cache, fp)

\* C16: get_all_duplicates, get_duplicates_of and is_duplicate leave the index
\* as it was: the bucket signatures present in each band, the members of each
\* bucket and the fingerprint store.
C16_ReadOnly ==
    [][last'.op \in {"get_all_duplicates", "get_duplicates_of", "is_duplicate"}
       => (/\ \A b \in 1..cache.num_bands : DOMAIN cache'.bins[b] = DOMAIN cache.bins[b]
           /\ MemberSets(cache') = MemberSets(cache)
           /\ cache'.fingerprints = cache.fingerprints)]_vars

\* C18: after to_json and from_json of an index whose doc ids are all integers
\* (or all strings) the imported store has the ids of the original, each mapped
\* to the same fingerprint values.
C18_RoundTripStore ==
    (/\ Constructed /\ last.op = "from_json"
     /\ \/ \A k \in Keys(Store) : k.t = "int"
        \/ \A k \in Keys(Store) : k.t = "str")
    => /\ loaded.exc = ""
       /\ Keys(loaded.cache.fingerprints) = Keys(Store)
       /\ \A k \in Keys(Store) : Get(loaded.cache.fingerprints, k) = Get(Store, k)

\* C19: once a content has been registered with update() under any doc id,
\* None included, and clear() has not been called since, is_duplicate(doc) with
\* doc_id=None returns true for that content.
C19_RegisteredIsDuplicate ==
    Constructed =>
        \A r \in registered :
            /\ is_duplicate(cache, {r.doc}, PyNone).exc = ""
            /\ is_duplicate(cache, {r.doc}, PyNone).val = TRUE

\* C17: every query made while other queries run, and nothing else, completes
\* with the outcome it has when it runs alone on the index: the same result,
\* and no exception that the call alone does not raise.
C17_ConcurrentQueries ==
    \A t \in Threads : calls[t].pc = "done" => calls[t].call = calls[t].alone
====
